---- MODULE Spec2Model ----
(***************************************************************************)
(* Interactive layer of the generated static site: the search overlay      *)
(* (src/unnamed/part_000), the page-list keyboard navigator                *)
(* (src/unnamed/part_001) and the top-nav keydown listener                 *)
(* (src/static/script.js).                                                 *)
(*                                                                         *)
(* A string of the program is a TLA+ string in the state and the sequence   *)
(* of its characters, Chars(s), wherever the code looks inside it, so that *)
(* toLowerCase, trim and includes are computed rather than assumed.        *)
(* JavaScript indices are 0-based: selectedResultIndex = k names           *)
(* searchResults[k + 1] here.                                              *)
(***************************************************************************)
EXTENDS Integers, Sequences, FiniteSets, TLC

VARIABLES
    searchActive,         \* part_000:22
    searchQuery,          \* part_000:23
    searchResults,        \* part_000:24
    selectedResultIndex,  \* part_000:25
    lunrIndex,            \* part_000:26
    documents,            \* part_000:45
    lunrDefined,          \* typeof lunr !== 'undefined' (the library script has run)
    fetchState,           \* the promise of fetch('/static/search-index.json')
    checkInterval,        \* part_000:6, the polling interval of waitForLunr: "active",
                          \* or the branch that cleared it, "ready" (line 8) or
                          \* "timedout" (line 11)
    clock,                \* Date.now() - start against the timeout of waitForLunr
    builds,               \* how many times lunr(...) completed in buildLunrIndex
    callbacks,            \* how many times the callback of waitForLunr ran
    last,                 \* the event dispatched last and what it did
    links,                \* part_001:6, the number of a[data-number] of the page list
    currentIndex,         \* part_001:7
    numberBuffer,         \* part_001:8
    numberTimeout,        \* part_001:9, 0 for null
    keyboardNavActive,    \* part_001:10
    highlighted,          \* the links whose classList holds 'highlighted'
    timers,               \* the ids of the timeouts that are armed
    navLast,              \* the navigator's event dispatched last and what it did
    snippet               \* part_000:131, a call of getSnippet: its arguments, whether
                          \* it has returned, its locals and the string it returned

searchVars == <<searchActive, searchQuery, searchResults, selectedResultIndex>>
loadVars == <<lunrIndex, documents, lunrDefined, fetchState, checkInterval, clock,
              builds, callbacks>>
navVars == <<links, currentIndex, numberBuffer, numberTimeout, keyboardNavActive,
             highlighted, timers, navLast>>
vars == <<searchVars, loadVars, last, navVars, snippet>>

-----------------------------------------------------------------------------
(* Bounds of the model and constants of the program *)

MaxDocs == 12        \* size of the largest corpus the fetch can deliver
MaxLinks == 12       \* length of the longest page list
MaxDigits == 2       \* digits typed before a settle or an arrow key empties the buffer
ResultCap == 10      \* .slice(0, 10)
MaxPad == 160        \* length of the longest run of filler in a document's content
contextSize == 75    \* part_000:151
PlainLength == 150   \* part_000:147, content.substring(0, 150)
MarkLength == 2      \* part_000:163, term.length > 2

-----------------------------------------------------------------------------
(* Strings *)

UpperCase == <<"A", "B", "C", "D", "E", "F", "G", "H", "I", "J", "K", "L", "M",
               "N", "O", "P", "Q", "R", "S", "T", "U", "V", "W", "X", "Y", "Z">>
LowerCase == <<"a", "b", "c", "d", "e", "f", "g", "h", "i", "j", "k", "l", "m",
               "n", "o", "p", "q", "r", "s", "t", "u", "v", "w", "x", "y", "z">>
Whitespace == {" ", "\t", "\n"}

LowerChar(c) ==
    IF \E i \in DOMAIN UpperCase : UpperCase[i] = c
    THEN LowerCase[CHOOSE i \in DOMAIN UpperCase : UpperCase[i] = c]
    ELSE c

\* String.prototype.toLowerCase
toLowerCase(s) == [i \in DOMAIN s |-> LowerChar(s[i])]

RECURSIVE TrimStart(_)
TrimStart(s) ==
    IF s # <<>> /\ Head(s) \in Whitespace THEN TrimStart(Tail(s)) ELSE s

RECURSIVE TrimEnd(_)
TrimEnd(s) ==
    IF s # <<>> /\ s[Len(s)] \in Whitespace
    THEN TrimEnd(SubSeq(s, 1, Len(s) - 1))
    ELSE s

\* String.prototype.trim
trim(s) == TrimEnd(TrimStart(s))

StartsAt(s, t, off) ==
    /\ off + Len(t) <= Len(s)
    /\ \A j \in 1..Len(t) : s[off + j] = t[j]

\* String.prototype.indexOf(t, off): the least 0-based offset of t in s from
\* off on, or -1
IndexFrom(s, t, off) ==
    LET found == {at \in off..(Len(s) - Len(t)) : StartsAt(s, t, at)} IN
    IF found = {} THEN -1
    ELSE CHOOSE at \in found : \A other \in found : at <= other

indexOf(s, t) == IndexFrom(s, t, 0)

\* String.prototype.includes
includes(s, t) == indexOf(s, t) # -1

-----------------------------------------------------------------------------
(* The corpus: the JSON array of { id, title, content, url } the fetch delivers *)

\* the characters of the strings that occur in the corpora and the queries
Chars(name) ==
    CASE name = "Intro" -> <<"I", "n", "t", "r", "o">>
      [] name = "Cache Design" -> <<"C", "a", "c", "h", "e", " ", "D", "e", "s", "i", "g", "n">>
      [] name = "Guide" -> <<"G", "u", "i", "d", "e">>
      [] name = "A cache" -> <<"A", " ", "c", "a", "c", "h", "e">>
      [] name = "Design" -> <<"D", "e", "s", "i", "g", "n">>
      [] name = "cac" -> <<"c", "a", "c">>
      [] name = "CAC" -> <<"C", "A", "C">>
      [] name = " " -> <<" ">>
      [] name = "" -> <<>>

Doc(i) ==
    [id |-> "d" \o ToString(i),
     title |-> IF i % 2 = 1 THEN "Intro" ELSE "Cache Design",
     content |-> IF i % 5 = 0 THEN ""
                 ELSE IF i % 2 = 1 THEN "A cache"
                 ELSE IF i % 4 = 2 THEN "Guide"
                 ELSE "Design",
     url |-> "/" \o "d" \o ToString(i)]

Corpus(n) == [i \in 1..n |-> Doc(i)]

\* what response.json() can resolve to
Corpora == {Corpus(n) : n \in {0, 2, MaxDocs}}

\* the texts an input event can carry
Queries == {"", " ", "cac", "CAC"}

-----------------------------------------------------------------------------
(* Sequences *)

\* a slice that keeps one element too many
sliceOneMore(s, n) == SubSeq(s, 1, IF Len(s) < n + 1 THEN Len(s) ELSE n + 1)

\* Array.prototype.slice(0, n)
slice0(s, n) == SubSeq(s, 1, IF Len(s) < n THEN Len(s) ELSE n)

Reverse(s) == [i \in DOMAIN s |-> s[Len(s) + 1 - i]]

Min(a, b) == IF a < b THEN a ELSE b
Max(a, b) == IF a > b THEN a ELSE b

-----------------------------------------------------------------------------
(* The index and the indexing library *)

Null == [built |-> FALSE, refs |-> <<>>]

\* lunr(function () { this.ref('id'); ... documents.forEach(doc => this.add(doc)) })
lunr(docs) == [built |-> TRUE, refs |-> [i \in DOMAIN docs |-> docs[i].id]]

\* What lunrIndex.search(query + '*') can do: throw (a query the library's
\* parser rejects), or return a ranked list of references to indexed
\* documents.  The ranking is the library's; the model lets it be a prefix
\* of the indexed references in corpus order or in the opposite order, of
\* no, one, all but one or all of them.
LunrOutcomes(index) ==
    LET n == Len(index.refs) IN
    {[throws |-> TRUE, refs |-> <<>>]} \cup
    {[throws |-> FALSE, refs |-> SubSeq(ord, 1, k)] :
        ord \in {index.refs, Reverse(index.refs)},
        k \in {0, 1, n - 1, n} \cap (0..n)}

-----------------------------------------------------------------------------
(* The overlay's state as a record, threaded through the statements of a
   handler.  href is what the handler assigned to window.location.href
   (NoHref when it assigned nothing) and path the branch performSearch took. *)

NoHref == "(none)"

Cur ==
    [searchActive |-> searchActive, searchQuery |-> searchQuery,
     searchResults |-> searchResults, selectedResultIndex |-> selectedResultIndex,
     href |-> NoHref, path |-> "-"]

\* a match that forgets to lower-case the document's text
fallbackMatchCaseSensitive(doc, lowerQuery) ==
    \/ includes(Chars(doc.title), lowerQuery)
    \/ includes(Chars(doc.content), lowerQuery)

\* doc => doc.title.toLowerCase().includes(lowerQuery) ||
\*        doc.content.toLowerCase().includes(lowerQuery)
fallbackMatch(doc, lowerQuery) ==
    \/ includes(toLowerCase(Chars(doc.title)), lowerQuery)
    \/ includes(toLowerCase(Chars(doc.content)), lowerQuery)

\* documents.filter(...) of fallbackSearch
RECURSIVE fallbackFilter(_, _)
fallbackFilter(docs, lowerQuery) ==
    IF docs = <<>> THEN <<>>
    ELSE IF fallbackMatch(Head(docs), lowerQuery)
         THEN <<Head(docs)>> \o fallbackFilter(Tail(docs), lowerQuery)
         ELSE fallbackFilter(Tail(docs), lowerQuery)

fallbackSearch(st, query) ==
    LET lowerQuery == toLowerCase(Chars(query)) IN
    [st EXCEPT !.searchResults = slice0(fallbackFilter(documents, lowerQuery), ResultCap),
               !.selectedResultIndex = -1,
               !.path = "fallback"]

\* results.map(result => documents.find(d => d.id === result.ref)).filter(doc => doc)
RECURSIVE findDocs(_)
findDocs(refs) ==
    IF refs = <<>> THEN <<>>
    ELSE LET hits == {i \in DOMAIN documents : documents[i].id = Head(refs)} IN
         IF hits = {} THEN findDocs(Tail(refs))
         ELSE <<documents[CHOOSE i \in hits : \A j \in hits : i <= j]>>
              \o findDocs(Tail(refs))

\* a catch block that runs the substring search instead of emptying the results
indexedSearchFallsBack(st, outcome) ==
    IF outcome.throws
    THEN [fallbackSearch(st, st.searchQuery) EXCEPT !.path = "threw"]
    ELSE [st EXCEPT !.searchResults = slice0(findDocs(outcome.refs), ResultCap),
                    !.selectedResultIndex = -1,
                    !.path = "indexed"]

\* the try/catch of performSearch and the two statements after it; outcome is
\* what lunrIndex.search(query + '*') did
indexedSearch(st, outcome) ==
    IF outcome.throws
    THEN [st EXCEPT !.searchResults = <<>>,
                    !.selectedResultIndex = -1,
                    !.path = "threw"]
    ELSE [st EXCEPT !.searchResults = slice0(findDocs(outcome.refs), ResultCap),
                    !.selectedResultIndex = -1,
                    !.path = "indexed"]

\* a performSearch that stops using the index once a query has thrown
performSearchCircuitBreaker(st, query, outcome) ==
    IF trim(Chars(query)) = <<>>
    THEN [st EXCEPT !.searchResults = <<>>, !.path = "empty"]
    ELSE IF ~lunrIndex.built \/ ~lunrDefined \/ last.path \in {"threw", "broken"}
    THEN [fallbackSearch(st, query) EXCEPT
            !.path = IF lunrIndex.built /\ lunrDefined THEN "broken" ELSE "fallback"]
    ELSE indexedSearch(st, outcome)

performSearch(st, query, outcome) ==
    IF trim(Chars(query)) = <<>>
    THEN [st EXCEPT !.searchResults = <<>>, !.path = "empty"]
    ELSE IF ~lunrIndex.built \/ ~lunrDefined
    THEN fallbackSearch(st, query)
    ELSE indexedSearch(st, outcome)

openSearch(st) ==
    [st EXCEPT !.searchActive = TRUE, !.searchQuery = "",
               !.searchResults = <<>>, !.selectedResultIndex = -1]

\* a closeSearch that leaves the results and the selection behind
closeSearchKeepsResults(st) ==
    [st EXCEPT !.searchActive = FALSE, !.searchQuery = ""]

closeSearch(st) ==
    [st EXCEPT !.searchActive = FALSE, !.searchQuery = "",
               !.searchResults = <<>>, !.selectedResultIndex = -1]

\* searchInput.addEventListener('input', ...)
inputListener(st, text, outcome) ==
    performSearch([st EXCEPT !.searchQuery = text], text, outcome)

-----------------------------------------------------------------------------
(* Keyboard events: e.key, e.target.tagName and the modifiers held *)

TextTags == {"INPUT", "TEXTAREA"}
Tags == TextTags \cup {"DIV"}
Modifiers == {{}, {"ctrl"}, {"meta"}, {"alt"}}

\* the ArrowDown branch of the overlay's keydown listener
arrowDown(st) ==
    LET nextIndex == Min(st.selectedResultIndex + 1, Len(st.searchResults) - 1) IN
    IF nextIndex >= 0
    THEN [st EXCEPT !.selectedResultIndex = nextIndex]
    ELSE st

\* the ArrowUp branch
arrowUp(st) ==
    LET prevIndex == Max(st.selectedResultIndex - 1, -1) IN
    [st EXCEPT !.selectedResultIndex = prevIndex]

\* an Enter branch that follows the first result when nothing is selected
enterTopHit(st) ==
    IF st.selectedResultIndex + 1 \in DOMAIN st.searchResults
    THEN [st EXCEPT !.href = st.searchResults[st.selectedResultIndex + 1].url]
    ELSE IF st.selectedResultIndex = -1 /\ st.searchResults # <<>>
    THEN [st EXCEPT !.href = st.searchResults[1].url]
    ELSE st

\* the Enter branch, its condition included; searchResults[selectedResultIndex]
\* is undefined, so falsy, outside the array
enter(st) ==
    IF /\ st.selectedResultIndex >= 0
       /\ st.selectedResultIndex + 1 \in DOMAIN st.searchResults
    THEN [st EXCEPT !.href = st.searchResults[st.selectedResultIndex + 1].url]
    ELSE st

\* document.addEventListener('keydown', ...) of the search overlay
searchKeydown(st, key, tag, mod) ==
    LET home == IF /\ key \in {"h", "H"}
                   /\ ~st.searchActive /\ tag \notin TextTags
                   /\ "ctrl" \notin mod /\ "meta" \notin mod /\ "alt" \notin mod
                THEN [st EXCEPT !.href = "/"]
                ELSE st
        slash == IF key = "/" /\ ~home.searchActive /\ tag \notin TextTags
                 THEN openSearch(home)
                 ELSE home
    IN  IF ~slash.searchActive THEN slash
        ELSE IF key = "Escape" THEN closeSearch(slash)
        ELSE IF key = "ArrowDown" THEN arrowDown(slash)
        ELSE IF key = "ArrowUp" THEN arrowUp(slash)
        ELSE IF key = "Enter" THEN enter(slash)
        ELSE slash

\* document.addEventListener('keydown', ...) of the top nav, up to "H = home":
\* the href it assigns, or NoHref
scriptKeydown(key, tag, mod) ==
    IF tag \in TextTags THEN NoHref
    ELSE IF "ctrl" \in mod \/ "meta" \in mod \/ "alt" \in mod THEN NoHref
    ELSE IF key \in {"h", "H"} THEN "/"
    ELSE NoHref

-----------------------------------------------------------------------------
(* getSnippet: the excerpt of a document's content shown with a result.
   Strings are sequences of characters here; the query terms are letters,
   which a RegExp matches literally. *)

Ellipsis == <<".", ".", ".">>
MarkOpen == <<"<", "m", "a", "r", "k", ">">>
MarkClose == <<"<", "/", "m", "a", "r", "k", ">">>

\* String.prototype.substring(from, to), 0 <= from <= to
substring(s, from, to) == SubSeq(s, from + 1, Min(to, Len(s)))

\* s.split(/\s+/).filter(t => t.length > 0): term is the run of characters
\* read so far, terms the runs completed
RECURSIVE splitTerms(_, _, _)
splitTerms(s, term, terms) ==
    LET done == IF term = <<>> THEN terms ELSE Append(terms, term) IN
    IF s = <<>> THEN done
    ELSE IF Head(s) \in Whitespace THEN splitTerms(Tail(s), <<>>, done)
    ELSE splitTerms(Tail(s), Append(term, Head(s)), terms)

\* for (const term of queryTerms) { matchIndex = lowerContent.indexOf(term);
\*                                  if (matchIndex !== -1) break; }
RECURSIVE firstMatch(_, _)
firstMatch(lowerContent, queryTerms) ==
    IF queryTerms = <<>> THEN -1
    ELSE LET matchIndex == indexOf(lowerContent, Head(queryTerms)) IN
         IF matchIndex # -1 THEN matchIndex
         ELSE firstMatch(lowerContent, Tail(queryTerms))

\* the RegExp (term) with flag i matches at offset off of s
MatchesAt(s, term, off) ==
    /\ off + Len(term) <= Len(s)
    /\ \A j \in 1..Len(term) : LowerChar(s[off + j]) = term[j]

\* the offset of the leftmost match of the RegExp in s from off on, or -1
nextMatch(s, term, off) ==
    LET found == {at \in off..(Len(s) - Len(term)) : MatchesAt(s, term, at)} IN
    IF found = {} THEN -1
    ELSE CHOOSE at \in found : \A other \in found : at <= other

\* s.replace(new RegExp(`(${term})`, 'gi'), '<mark>$1</mark>'), from offset off:
\* flag g replaces every match, each sought after the end of the one before
RECURSIVE replaceFrom(_, _, _)
replaceFrom(s, term, off) ==
    LET at == nextMatch(s, term, off) IN
    IF at = -1 THEN SubSeq(s, off + 1, Len(s))
    ELSE SubSeq(s, off + 1, at)
         \o MarkOpen \o SubSeq(s, at + 1, at + Len(term)) \o MarkClose
         \o replaceFrom(s, term, at + Len(term))

\* queryTerms.forEach(term => { if (term.length > 2) snippet = snippet.replace(...) })
RECURSIVE highlightTerms(_, _)
highlightTerms(text, queryTerms) ==
    IF queryTerms = <<>> THEN text
    ELSE highlightTerms(IF Len(Head(queryTerms)) > MarkLength
                        THEN replaceFrom(text, Head(queryTerms), 0)
                        ELSE text,
                        Tail(queryTerms))

\* getSnippet(content, query): the locals matchIndex, start and end, and the
\* string returned
getSnippet(content, query) ==
    IF content = <<>> \/ query = <<>>
    THEN [matchIndex |-> -1, start |-> 0, end |-> 0, text |-> <<>>]
    ELSE
    LET lowerContent == toLowerCase(content)
        lowerQuery == toLowerCase(query)
        queryTerms == splitTerms(lowerQuery, <<>>, <<>>)
        matchIndex == firstMatch(lowerContent, queryTerms)
    IN  IF matchIndex = -1
        THEN [matchIndex |-> -1, start |-> 0, end |-> Min(PlainLength, Len(content)),
              text |-> substring(content, 0, PlainLength)
                       \o (IF Len(content) > PlainLength THEN Ellipsis ELSE <<>>)]
        ELSE
        LET start == Max(0, matchIndex - contextSize)
            end == Min(Len(content), matchIndex + contextSize)
            cut == substring(content, start, end)
            led == IF start > 0 THEN Ellipsis \o cut ELSE cut
            trailed == IF end < Len(content) THEN led \o Ellipsis ELSE led
        IN  [matchIndex |-> matchIndex, start |-> start, end |-> end,
             text |-> highlightTerms(trailed, queryTerms)]

\* no call of getSnippet
NoSnippet ==
    [content |-> <<>>, query |-> <<>>, returned |-> FALSE,
     matchIndex |-> -1, start |-> 0, end |-> 0, text |-> <<>>]

\* a run of n filler characters
Pad(n) == [i \in 1..n |-> "x"]

PadLengths == {0, 1, contextSize + 1, MaxPad}

\* the words the documents hold, and the pairs of them a content holds
Cat == <<"C", "a", "t">>
Dog == <<"d", "o", "g">>
WordPairs == {<<Cat, Dog>>, <<Dog, Cat>>, <<Cat, <<>>>>}

\* doc.content: two words among filler, or nothing
Contents ==
    {<<>>} \cup
    {Pad(i) \o w[1] \o Pad(j) \o w[2] \o Pad(k) :
        i \in PadLengths, j \in PadLengths, k \in PadLengths, w \in WordPairs}

\* searchQuery at the time of renderResults
SnippetQueries ==
    {<<>>,
     <<"c", "a", "t">>,
     <<"c", "a", "t", " ", "d", "o", "g">>,
     <<"d", "o", "g", " ", "c", "a", "t">>,
     <<" ", "D", "O", "G">>,
     <<"a", "t">>,
     <<"o", "x">>}

\* renderResults calls getSnippet(result.content, searchQuery)
RenderSnippet ==
    /\ ~snippet.returned
    /\ LET out == getSnippet(snippet.content, snippet.query) IN
       snippet' = [snippet EXCEPT !.returned = TRUE,
                                  !.matchIndex = out.matchIndex,
                                  !.start = out.start,
                                  !.end = out.end,
                                  !.text = out.text]
    /\ UNCHANGED <<searchVars, loadVars, last, navVars>>

-----------------------------------------------------------------------------
(* Loading: the corpus fetch, the indexing library and the readiness wait *)

\* a buildLunrIndex without the test of typeof lunr
buildLunrIndexUnguarded(index, docs, count, throws) ==
    IF Len(docs) = 0
    THEN [lunrIndex |-> index, builds |-> count, path |-> "-"]
    ELSE IF throws
    THEN [lunrIndex |-> index, builds |-> count, path |-> "build threw"]
    ELSE [lunrIndex |-> lunr(docs), builds |-> count + 1, path |-> "built"]

\* buildLunrIndex over the documents docs: the values it leaves in lunrIndex
\* and in the count of completed builds, and the path it took (the early
\* return, the catch block or the end of the try block); throws is whether
\* lunr(...) threw
buildLunrIndex(index, docs, count, throws) ==
    IF ~lunrDefined \/ Len(docs) = 0
    THEN [lunrIndex |-> index, builds |-> count, path |-> "-"]
    ELSE IF throws
    THEN [lunrIndex |-> index, builds |-> count, path |-> "build threw"]
    ELSE [lunrIndex |-> lunr(docs), builds |-> count + 1, path |-> "built"]

\* last: the event, the branch performSearch or buildLunrIndex took in it, whether the target
\* was a text field and whether a modifier was held (recorded for the H key),
\* the assignments to window.location.href it made, and whether the overlay
\* was open when it arrived
Event(ev) ==
    [ev |-> ev, path |-> "-", text |-> FALSE, held |-> FALSE, navs |-> {},
     open |-> searchActive]

\* the script of the indexing library runs
LunrLoads ==
    /\ ~lunrDefined
    /\ lunrDefined' = TRUE
    /\ last' = Event("LunrLoads")
    /\ UNCHANGED <<snippet, navVars, searchVars, lunrIndex, documents, fetchState, checkInterval,
                   clock, builds, callbacks>>

\* .then(data => { documents = data; buildLunrIndex(); })
FetchResolves ==
    /\ fetchState = "pending"
    /\ \E data \in Corpora, throws \in BOOLEAN :
         LET b == buildLunrIndex(lunrIndex, data, builds, throws) IN
         /\ documents' = data
         /\ lunrIndex' = b.lunrIndex
         /\ builds' = b.builds
         /\ last' = [Event("FetchResolves") EXCEPT !.path = b.path]
    /\ fetchState' = "resolved"
    /\ UNCHANGED <<snippet, navVars, searchVars, lunrDefined, checkInterval, clock, callbacks>>

\* .catch(err => { console.error(...) })
FetchRejects ==
    /\ fetchState = "pending"
    /\ fetchState' = "rejected"
    /\ last' = Event("FetchRejects")
    /\ UNCHANGED <<snippet, navVars, searchVars, lunrIndex, documents, lunrDefined, checkInterval,
                   clock, builds, callbacks>>

\* Date.now() - start comes to exceed timeout; the clock is read by the
\* interval's callback alone
TimeoutPasses ==
    /\ checkInterval = "active"
    /\ clock = "early"
    /\ clock' = "late"
    /\ last' = Event("TimeoutPasses")
    /\ UNCHANGED <<snippet, navVars, searchVars, lunrIndex, documents, lunrDefined, fetchState,
                   checkInterval, builds, callbacks>>

\* a readiness wait whose callback builds nothing
PollTickBuildsNothing ==
    /\ checkInterval = "active"
    /\ IF lunrDefined \/ clock = "late"
       THEN /\ checkInterval' = IF lunrDefined THEN "ready" ELSE "timedout"
            /\ callbacks' = callbacks + 1
            /\ UNCHANGED <<lunrIndex, builds>>
       ELSE UNCHANGED <<checkInterval, callbacks, lunrIndex, builds>>
    /\ last' = Event("PollTick")
    /\ UNCHANGED <<snippet, navVars, searchVars, documents, lunrDefined, fetchState, clock>>

\* one run of the setInterval callback of waitForLunr; its callback is
\* function () { if (typeof buildLunrIndex === 'function') buildLunrIndex(); }
PollTick ==
    /\ checkInterval = "active"
    /\ IF lunrDefined \/ clock = "late"
       THEN \E throws \in BOOLEAN :
              LET b == buildLunrIndex(lunrIndex, documents, builds, throws) IN
              /\ checkInterval' = IF lunrDefined THEN "ready" ELSE "timedout"
              /\ callbacks' = callbacks + 1
              /\ lunrIndex' = b.lunrIndex
              /\ builds' = b.builds
              /\ last' = [Event("PollTick") EXCEPT !.path = b.path]
       ELSE /\ last' = Event("PollTick")
            /\ UNCHANGED <<checkInterval, callbacks, lunrIndex, builds>>
    /\ UNCHANGED <<snippet, navVars, searchVars, documents, lunrDefined, fetchState, clock>>

-----------------------------------------------------------------------------
(* Events of the overlay *)

Apply(st) ==
    /\ searchActive' = st.searchActive
    /\ searchQuery' = st.searchQuery
    /\ searchResults' = st.searchResults
    /\ selectedResultIndex' = st.selectedResultIndex

Navs(by, href) == IF href = NoHref THEN {} ELSE {[by |-> by, href |-> href]}

\* click on #searchBtn, focus or click on #hero-search-box
OpenClick ==
    /\ Apply(openSearch(Cur))
    /\ last' = Event("OpenClick")
    /\ UNCHANGED <<loadVars, navVars, snippet>>

\* click on the overlay outside the search box
BackdropClick ==
    /\ Apply(closeSearch(Cur))
    /\ last' = Event("BackdropClick")
    /\ UNCHANGED <<loadVars, navVars, snippet>>

\* input event of #search-input
Input ==
    /\ \E text \in Queries :
       \E outcome \in IF lunrIndex.built /\ trim(Chars(text)) # <<>>
                      THEN LunrOutcomes(lunrIndex)
                      ELSE {[throws |-> FALSE, refs |-> <<>>]} :
         LET st == inputListener(Cur, text, outcome) IN
         /\ Apply(st)
         /\ last' = [Event("Input") EXCEPT !.path = st.path]
    /\ UNCHANGED <<loadVars, navVars, snippet>>

\* a keydown event reaches both listeners registered on the document
KeyDown(ev, key, tag, mod, shown) ==
    LET st == searchKeydown(Cur, key, tag, mod) IN
    /\ Apply(st)
    /\ last' = [Event(ev) EXCEPT
                  !.text = shown /\ tag \in TextTags,
                  !.held = shown /\ mod # {},
                  !.navs = Navs("search", st.href)
                           \cup Navs("script", scriptKeydown(key, tag, mod))]
    /\ UNCHANGED <<loadVars, navVars, snippet>>

KeyH == \E key \in {"h", "H"}, tag \in Tags, mod \in Modifiers :
            KeyDown("KeyH", key, tag, mod, TRUE)

\* the listeners read the target of "/" and neither target nor modifiers of
\* the keys below it
KeySlash == \E tag \in Tags : KeyDown("KeySlash", "/", tag, {}, FALSE)

KeyEscape == \E tag \in Tags : KeyDown("KeyEscape", "Escape", tag, {}, FALSE)

KeyArrowDown == \E tag \in Tags : KeyDown("KeyArrowDown", "ArrowDown", tag, {}, FALSE)

KeyArrowUp == \E tag \in Tags : KeyDown("KeyArrowUp", "ArrowUp", tag, {}, FALSE)

KeyEnter == \E tag \in Tags : KeyDown("KeyEnter", "Enter", tag, {}, FALSE)

-----------------------------------------------------------------------------
(* The page-list navigator *)

\* links[index].href
LinkHref(index) == "/page" \o ToString(index + 1)

NavCur ==
    [currentIndex |-> currentIndex, numberBuffer |-> numberBuffer,
     numberTimeout |-> numberTimeout, keyboardNavActive |-> keyboardNavActive,
     highlighted |-> highlighted, timers |-> timers,
     href |-> NoHref, lit |-> FALSE, scrolled |-> FALSE]

setKeyboardNavMode(st, active) == [st EXCEPT !.keyboardNavActive = active]

clearHighlight(st) == [st EXCEPT !.highlighted = {}]

\* lit records the call, scrolled the call of window.scrollTo
highlightLink(st, index) ==
    LET on == [setKeyboardNavMode(clearHighlight(st), TRUE) EXCEPT !.lit = TRUE] IN
    IF index >= 0 /\ index < links
    THEN [on EXCEPT !.currentIndex = index,
                    !.highlighted = @ \cup {index},
                    !.scrolled = TRUE]
    ELSE on

navigateToLink(st) ==
    IF st.currentIndex >= 0 /\ st.currentIndex < links
    THEN [st EXCEPT !.href = LinkHref(st.currentIndex)]
    ELSE st

\* clearTimeout(id)
clearTimeout(st, id) == [st EXCEPT !.timers = @ \ {id}]

\* the id setTimeout returns: one that names no armed timeout
NewTimer(st) == CHOOSE id \in 1..(Cardinality(st.timers) + 1) : id \notin st.timers

DigitValue(c) == CHOOSE d \in 0..9 : ToString(d) = c

\* parseInt(s, 10) of a string of digits; NaN for the empty string
NaN == -1
RECURSIVE parseInt(_)
parseInt(s) ==
    IF s = <<>> THEN NaN
    ELSE IF Len(s) = 1 THEN DigitValue(s[1])
    ELSE parseInt(SubSeq(s, 1, Len(s) - 1)) * 10 + DigitValue(s[Len(s)])

\* a handleNumberKey that starts the buffer afresh at every digit
handleNumberKeyRestarts(st, num) ==
    LET cleared == IF st.numberTimeout # 0 THEN clearTimeout(st, st.numberTimeout) ELSE st
        id == NewTimer(cleared)
    IN  [cleared EXCEPT !.numberBuffer = <<num>>,
                        !.numberTimeout = id,
                        !.timers = @ \cup {id}]

\* a handleNumberKey without the clearTimeout
handleNumberKeyKeepsTimer(st, num) ==
    LET id == NewTimer(st)
    IN  [st EXCEPT !.numberBuffer = Append(@, num),
                   !.numberTimeout = id,
                   !.timers = @ \cup {id}]

handleNumberKey(st, num) ==
    LET cleared == IF st.numberTimeout # 0 THEN clearTimeout(st, st.numberTimeout) ELSE st
        id == NewTimer(cleared)
    IN  [cleared EXCEPT !.numberBuffer = Append(@, num),
                        !.numberTimeout = id,
                        !.timers = @ \cup {id}]

\* a settle callback without the range test
settleUnchecked(st) ==
    LET parsed == parseInt(st.numberBuffer)
        linkIndex == parsed - 1
        shown == highlightLink(st, linkIndex)
    IN  [shown EXCEPT !.numberBuffer = <<>>]

\* a settle callback that follows the link it highlights
settleNavigates(st) ==
    LET parsed == parseInt(st.numberBuffer)
        linkIndex == parsed - 1
        shown == IF parsed # NaN /\ linkIndex >= 0 /\ linkIndex < links
                 THEN navigateToLink(highlightLink(st, linkIndex))
                 ELSE st
    IN  [shown EXCEPT !.numberBuffer = <<>>]

\* the callback handleNumberKey hands to setTimeout
settle(st) ==
    LET parsed == parseInt(st.numberBuffer)
        linkIndex == parsed - 1
        shown == IF parsed # NaN /\ linkIndex >= 0 /\ linkIndex < links
                 THEN highlightLink(st, linkIndex)
                 ELSE st
    IN  [shown EXCEPT !.numberBuffer = <<>>]

DigitKeys == {"0", "1", "2"}

\* an ArrowDown branch that leaves the pending timeout armed
navArrowDownKeepsTimer(st) ==
    LET nextIndex == st.currentIndex + 1
        moved == IF nextIndex < links THEN highlightLink(st, nextIndex) ELSE st
    IN  [moved EXCEPT !.numberBuffer = <<>>]

\* the ArrowDown branch of the navigator's keydown listener
navArrowDown(st) ==
    LET nextIndex == st.currentIndex + 1
        moved == IF nextIndex < links THEN highlightLink(st, nextIndex) ELSE st
        emptied == [moved EXCEPT !.numberBuffer = <<>>]
    IN  IF emptied.numberTimeout # 0
        THEN clearTimeout(emptied, emptied.numberTimeout)
        ELSE emptied

\* an ArrowUp branch without the test of prevIndex
navArrowUpUnguarded(st) ==
    LET prevIndex == st.currentIndex - 1
        moved == highlightLink(st, prevIndex)
        emptied == [moved EXCEPT !.numberBuffer = <<>>]
    IN  IF emptied.numberTimeout # 0
        THEN clearTimeout(emptied, emptied.numberTimeout)
        ELSE emptied

\* the ArrowUp branch
navArrowUp(st) ==
    LET prevIndex == st.currentIndex - 1
        moved == IF prevIndex >= 0 THEN highlightLink(st, prevIndex) ELSE st
        emptied == [moved EXCEPT !.numberBuffer = <<>>]
    IN  IF emptied.numberTimeout # 0
        THEN clearTimeout(emptied, emptied.numberTimeout)
        ELSE emptied

\* document.addEventListener('keydown', ...) of the navigator
navKeydown(st, key, tag, mod) ==
    IF tag \in TextTags /\ key # "/" THEN st
    ELSE IF "ctrl" \in mod \/ "meta" \in mod \/ "alt" \in mod THEN st
    ELSE IF key = "ArrowDown" THEN navArrowDown(st)
    ELSE IF key = "ArrowUp" THEN navArrowUp(st)
    ELSE IF key = "Enter" /\ st.currentIndex >= 0 THEN navigateToLink(st)
    ELSE IF key \in DigitKeys THEN handleNumberKey(st, key)
    ELSE st

\* a mousemove listener that keeps currentIndex
mousemoveKeepsIndex(st) ==
    IF st.keyboardNavActive
    THEN clearHighlight(setKeyboardNavMode(st, FALSE))
    ELSE st

\* pageList.addEventListener('mousemove', ...)
mousemove(st) ==
    IF st.keyboardNavActive
    THEN [clearHighlight(setKeyboardNavMode(st, FALSE)) EXCEPT !.currentIndex = -1]
    ELSE st

\* navLast: the event, whether the keydown listener went past its two early
\* returns, whether highlightLink and window.scrollTo were called, the href
\* assigned to window.location.href, and numberBuffer and currentIndex as the
\* event found them
NavEvent(ev, heard, st) ==
    [ev |-> ev, heard |-> heard, lit |-> st.lit, scrolled |-> st.scrolled,
     href |-> st.href, buffered |-> numberBuffer, was |-> currentIndex]

NavApply(st) ==
    /\ currentIndex' = st.currentIndex
    /\ numberBuffer' = st.numberBuffer
    /\ numberTimeout' = st.numberTimeout
    /\ keyboardNavActive' = st.keyboardNavActive
    /\ highlighted' = st.highlighted
    /\ timers' = st.timers
    /\ UNCHANGED <<links, searchVars, loadVars, last, snippet>>

NavKeyDown(ev, key) ==
    \E tag \in Tags, mod \in Modifiers :
        LET st == navKeydown(NavCur, key, tag, mod) IN
        /\ NavApply(st)
        /\ navLast' = NavEvent(ev, tag \notin TextTags /\ mod = {}, st)

NavArrowDown == NavKeyDown("ArrowDown", "ArrowDown")

NavArrowUp == NavKeyDown("ArrowUp", "ArrowUp")

NavEnter == NavKeyDown("Enter", "Enter")

\* a digit key; the model stops typing at MaxDigits buffered digits
NavDigit ==
    /\ Len(numberBuffer) < MaxDigits
    /\ \E key \in DigitKeys : NavKeyDown("Digit", key)

\* an armed timeout fires
Settle ==
    \E id \in timers :
        LET st == settle([NavCur EXCEPT !.timers = @ \ {id}]) IN
        /\ NavApply(st)
        /\ navLast' = NavEvent("Settle", TRUE, st)

MouseMove ==
    LET st == mousemove(NavCur) IN
    /\ NavApply(st)
    /\ navLast' = NavEvent("MouseMove", TRUE, st)

\* the lengths a page list can have
LinkCounts == {0, 1, MaxLinks}

NavNext ==
    \/ NavArrowDown
    \/ NavArrowUp
    \/ NavEnter
    \/ NavDigit
    \/ Settle
    \/ MouseMove

-----------------------------------------------------------------------------
(* The search overlay's specification *)



\* initSearch has run: the listeners are registered, the fetch is in flight
\* and the readiness wait is polling; the library's script may have run
\* before.  The page has no page list.
SearchInit ==
    /\ searchActive = FALSE
    /\ searchQuery = ""
    /\ searchResults = <<>>
    /\ selectedResultIndex = -1
    /\ lunrIndex = Null
    /\ documents = <<>>
    /\ lunrDefined \in BOOLEAN
    /\ fetchState = "pending"
    /\ checkInterval = "active"
    /\ clock = "early"
    /\ builds = 0
    /\ callbacks = 0
    /\ last = [ev |-> "Init", path |-> "-", text |-> FALSE, held |-> FALSE,
               navs |-> {}, open |-> FALSE]
    /\ links = 0
    /\ currentIndex = -1
    /\ numberBuffer = <<>>
    /\ numberTimeout = 0
    /\ keyboardNavActive = FALSE
    /\ highlighted = {}
    /\ timers = {}
    /\ navLast = [ev |-> "Init", heard |-> TRUE, lit |-> FALSE, scrolled |-> FALSE,
                  href |-> NoHref, buffered |-> <<>>, was |-> -1]
    /\ snippet = NoSnippet

\* the navigator's script has run on a page with a page list; the overlay is
\* left in its initial state
NavInit ==
    /\ searchActive = FALSE
    /\ searchQuery = ""
    /\ searchResults = <<>>
    /\ selectedResultIndex = -1
    /\ lunrIndex = Null
    /\ documents = <<>>
    /\ lunrDefined = FALSE
    /\ fetchState = "pending"
    /\ checkInterval = "active"
    /\ clock = "early"
    /\ builds = 0
    /\ callbacks = 0
    /\ last = [ev |-> "Init", path |-> "-", text |-> FALSE, held |-> FALSE,
               navs |-> {}, open |-> FALSE]
    /\ links \in LinkCounts
    /\ currentIndex = -1
    /\ numberBuffer = <<>>
    /\ numberTimeout = 0
    /\ keyboardNavActive = FALSE
    /\ highlighted = {}
    /\ timers = {}
    /\ navLast = [ev |-> "Init", heard |-> TRUE, lit |-> FALSE, scrolled |-> FALSE,
                  href |-> NoHref, buffered |-> <<>>, was |-> -1]
    /\ snippet = NoSnippet

SearchNext ==
    \/ LunrLoads
    \/ FetchResolves
    \/ FetchRejects
    \/ TimeoutPasses
    \/ PollTick
    \/ OpenClick
    \/ BackdropClick
    \/ Input
    \/ KeyH
    \/ KeySlash
    \/ KeyEscape
    \/ KeyArrowDown
    \/ KeyArrowUp
    \/ KeyEnter

SearchSpec == SearchInit /\ [][SearchNext]_vars

\* the page-list navigator, the overlay left alone
NavSpec == NavInit /\ [][NavNext]_vars

\* Loading, with the overlay open to clicks and text while it goes on.  The
\* interval of waitForLunr keeps firing until it is cleared: setInterval
\* runs its callback every 100 ms.
LoadNext ==
    \/ LunrLoads
    \/ FetchResolves
    \/ FetchRejects
    \/ TimeoutPasses
    \/ PollTick
    \/ OpenClick
    \/ BackdropClick
    \/ Input

LoadSpec == SearchInit /\ [][LoadNext]_vars /\ WF_vars(PollTick)

\* renderResults is about to call getSnippet on the content of a result
SnippetInit ==
    /\ searchActive = TRUE
    /\ searchQuery = ""
    /\ searchResults = <<>>
    /\ selectedResultIndex = -1
    /\ lunrIndex = Null
    /\ documents = <<>>
    /\ lunrDefined = FALSE
    /\ fetchState = "resolved"
    /\ checkInterval = "active"
    /\ clock = "early"
    /\ builds = 0
    /\ callbacks = 0
    /\ last = [ev |-> "Input", path |-> "fallback", text |-> FALSE, held |-> FALSE,
               navs |-> {}, open |-> TRUE]
    /\ links = 0
    /\ currentIndex = -1
    /\ numberBuffer = <<>>
    /\ numberTimeout = 0
    /\ keyboardNavActive = FALSE
    /\ highlighted = {}
    /\ timers = {}
    /\ navLast = [ev |-> "Init", heard |-> TRUE, lit |-> FALSE, scrolled |-> FALSE,
                  href |-> NoHref, buffered |-> <<>>, was |-> -1]
    /\ snippet \in {[NoSnippet EXCEPT !.content = c, !.query = q] :
                        c \in Contents, q \in SnippetQueries}

SnippetNext == RenderSnippet

SnippetSpec == SnippetInit /\ [][SnippetNext]_vars

-----------------------------------------------------------------------------
(* What the claims are stated in *)

\* the text is empty or whitespace only
Blank(text) == \A i \in DOMAIN Chars(text) : Chars(text)[i] \in Whitespace

\* the same character, or the two cases of one letter
SameLetter(a, b) ==
    \/ a = b
    \/ \E i \in DOMAIN UpperCase : {a, b} = {UpperCase[i], LowerCase[i]}

\* text contains the whole of q at some offset, letter case ignored
ContainsIgnoringCase(text, q) ==
    \E off \in 0..(Len(text) - Len(q)) :
        \A j \in 1..Len(q) : SameLetter(text[off + j], q[j])

\* the first ResultCap documents of the corpus, in corpus order, whose title
\* or content contains the query
SubstringMatches(query) ==
    LET Hit(doc) == \/ ContainsIgnoringCase(Chars(doc.title), Chars(query))
                    \/ ContainsIgnoringCase(Chars(doc.content), Chars(query))
        hits == SelectSeq(documents, Hit)
    IN  SubSeq(hits, 1, Min(Len(hits), ResultCap))

\* the two texts differ in letter case at most
SameIgnoringCase(q1, q2) ==
    /\ Len(Chars(q1)) = Len(Chars(q2))
    /\ \A i \in DOMAIN Chars(q1) : SameLetter(Chars(q1)[i], Chars(q2)[i])

IndexAvailable == lunrIndex.built /\ lunrDefined

\* the hrefs the overlay's keydown listener assigned in the last event
SearchNavs == {n.href : n \in {m \in last.navs : m.by = "search"}}

-----------------------------------------------------------------------------
(* The claims *)

\* C1: in every reachable state of the overlay the selection is none or an
\* index into the results: -1 <= selectedIndex <= len(results) - 1.
C1_SelectionInRange ==
    /\ -1 <= selectedResultIndex
    /\ selectedResultIndex <= Len(searchResults) - 1

\* C2: every query change leaves the selection at none, whatever the text
\* and whichever path answers it.
C2_QueryChangeResetsSelection ==
    last.ev = "Input" => selectedResultIndex = -1

\* C3: on every path the stored result sequence has at most 10 entries.
C3_ResultsCapped == Len(searchResults) <= ResultCap

\* a fallback search over a corpus with more matches than the cap
C3_Witness ==
    /\ last.ev = "Input" /\ last.path = "fallback"
    /\ Len(searchResults) = ResultCap
    /\ Len(documents) > ResultCap

\* C4: with the index unavailable, a non-blank query is answered by the
\* fallback search, with exactly the first 10 documents, in corpus order,
\* whose title or content contains the query text, letter case ignored; a
\* query differing from it only in letter case gets the same results.
C4_FallbackSubstring ==
    (last.ev = "Input" /\ ~Blank(searchQuery) /\ ~IndexAvailable) =>
        /\ last.path = "fallback"
        /\ searchResults = SubstringMatches(searchQuery)
        /\ \A q \in Queries :
             SameIgnoringCase(searchQuery, q) =>
                 fallbackSearch(Cur, q).searchResults = searchResults

\* an upper-case query answered by the fallback search from a title or
\* content in another case
C4_Witness ==
    /\ last.ev = "Input" /\ last.path = "fallback"
    /\ searchQuery = "CAC"
    /\ searchResults # <<>>
    /\ ~IndexAvailable

\* C5 as stated: an indexed query that throws is answered by the substring
\* matches of the query.
C5_ThrowFallsBack ==
    (last.ev = "Input" /\ last.path = "threw") =>
        searchResults = SubstringMatches(searchQuery)

\* C5 as amended: an indexed query that throws is caught and leaves the
\* results empty and the selection at none; no substring search is run.
C5_ThrowEmptiesResults ==
    (last.ev = "Input" /\ last.path = "threw") =>
        /\ searchResults = <<>>
        /\ selectedResultIndex = -1

\* a query that threw although documents contain its text
C5_Witness ==
    /\ last.ev = "Input" /\ last.path = "threw"
    /\ SubstringMatches(searchQuery) # <<>>

\* C6: after a query that threw, the index is still in use, and the next
\* non-blank query change runs the indexed query again.
C6_NoLatchAfterThrow ==
    [][last.path = "threw" =>
         /\ IndexAvailable
         /\ IndexAvailable'
         /\ (last'.ev = "Input" /\ ~Blank(searchQuery')) =>
                last'.path \in {"indexed", "threw"}]_vars

\* the overlay open right after a query that threw, the index still in use
C6_Witness ==
    /\ last.ev = "Input" /\ last.path = "threw"
    /\ searchActive /\ IndexAvailable
    /\ searchResults = <<>>

\* C7: Escape or a backdrop click on the open overlay closes it and restores
\* the initial query, results and selection; Escape on the closed overlay
\* changes nothing.
C7_CloseResets ==
    [][/\ (last'.ev \in {"KeyEscape", "BackdropClick"} /\ searchActive) =>
            /\ ~searchActive'
            /\ searchQuery' = ""
            /\ searchResults' = <<>>
            /\ selectedResultIndex' = -1
       /\ (last'.ev = "KeyEscape" /\ ~searchActive) =>
            UNCHANGED <<searchVars, loadVars>>]_vars

\* Escape has closed the overlay it found open
C7_Witness ==
    /\ last.ev = "KeyEscape" /\ last.open
    /\ ~searchActive
    /\ documents # <<>>

\* C8: an H keypress assigns the home page to window.location.href only with
\* the overlay closed, the target no text field and no modifier held.
C8_HomeOnlyWhenClosed ==
    (last.ev = "KeyH" /\ \E n \in last.navs : n.href = "/") =>
        /\ ~last.open
        /\ ~last.text
        /\ ~last.held

\* C9: Enter makes the overlay's listener navigate exactly when the overlay
\* is open and the selection is an index into the results, and then to the
\* selected result's url; otherwise it does nothing.
C9_EnterNavigates ==
    last.ev = "KeyEnter" =>
        SearchNavs =
            IF /\ searchActive
               /\ selectedResultIndex \in 0..(Len(searchResults) - 1)
            THEN {searchResults[selectedResultIndex + 1].url}
            ELSE {}

\* Enter has followed a selected result
C9_Witness ==
    /\ last.ev = "KeyEnter"
    /\ searchActive /\ selectedResultIndex >= 0
    /\ SearchNavs # {}

\* C10: CurrentIndex stays in [-1, linkCount - 1]; an arrow key changes it to
\* a value in [0, linkCount - 1] only; ArrowUp at 0 and ArrowDown at
\* linkCount - 1 leave it and the highlight alone, and call neither
\* highlightLink nor window.scrollTo.
C10_ArrowsClamped ==
    [][/\ currentIndex' \in -1..(links - 1)
       /\ (navLast'.ev \in {"ArrowDown", "ArrowUp"} /\ currentIndex' # currentIndex) =>
            currentIndex' \in 0..(links - 1)
       /\ (\/ navLast'.ev = "ArrowUp" /\ currentIndex = 0
           \/ navLast'.ev = "ArrowDown" /\ currentIndex = links - 1) =>
            /\ currentIndex' = currentIndex
            /\ highlighted' = highlighted
            /\ ~navLast'.lit
            /\ ~navLast'.scrolled]_vars

\* ArrowUp was heard at the first link of a longer list and moved nothing
C10_Witness ==
    /\ navLast.ev = "ArrowUp" /\ navLast.heard /\ ~navLast.lit
    /\ currentIndex = 0
    /\ links > 1

-----------------------------------------------------------------------------
(* The page-list navigator's number keys, Enter and the mouse *)

\* the 1-based number a string of digits writes
RECURSIVE NumberOf(_)
NumberOf(digits) ==
    IF digits = <<>> THEN 0
    ELSE 10 * NumberOf(SubSeq(digits, 1, Len(digits) - 1))
         + DigitValue(digits[Len(digits)])

NavArrows == {"ArrowDown", "ArrowUp"}

C12_OutOfRangeIgnored ==
    [][navLast'.ev = "Settle" =>
            /\ numberBuffer' = <<>>
            /\ navLast'.href = NoHref
            /\ (NumberOf(numberBuffer) = 0 \/ NumberOf(numberBuffer) > links) =>
                    /\ currentIndex' = currentIndex
                    /\ highlighted' = highlighted
                    /\ keyboardNavActive' = keyboardNavActive
                    /\ ~navLast'.lit]_vars

\* a number beyond the list settled while a link was highlighted
C12_Witness ==
    /\ navLast.ev = "Settle"
    /\ navLast.buffered # <<>> /\ NumberOf(navLast.buffered) > links
    /\ currentIndex >= 0 /\ highlighted = {currentIndex}
    /\ numberBuffer = <<>>

\* C13: an arrow key the navigator hears empties the buffer and leaves no
\* settle timeout pending, so the digits typed before it are never read;
\* the arrow key itself moves CurrentIndex by one step at most.
C13_ArrowCancelsNumber ==
    [][(navLast'.ev \in NavArrows /\ navLast'.heard) =>
            /\ numberBuffer' = <<>>
            /\ timers' = {}
            /\ currentIndex' \in {currentIndex - 1, currentIndex, currentIndex + 1}]_vars

\* ArrowDown arrived while a digit was buffered and its timeout pending
C13_Witness ==
    /\ navLast.ev = "ArrowDown" /\ navLast.heard
    /\ navLast.buffered # <<>>
    /\ numberTimeout # 0 /\ timers = {}
    /\ numberBuffer = <<>>

\* C14: a location is assigned only by Enter with CurrentIndex in
\* [0, linkCount - 1], and it is the link at CurrentIndex; such an Enter,
\* when heard, always assigns it; Enter changes neither CurrentIndex nor the
\* highlight, and with CurrentIndex = -1 assigns nothing.
C14_OnlyEnterNavigates ==
    [][/\ navLast'.href # NoHref =>
            /\ navLast'.ev = "Enter"
            /\ currentIndex \in 0..(links - 1)
            /\ navLast'.href = LinkHref(currentIndex)
       /\ (navLast'.ev = "Enter" /\ navLast'.heard /\ currentIndex \in 0..(links - 1)) =>
            navLast'.href = LinkHref(currentIndex)
       /\ navLast'.ev = "Enter" =>
            /\ currentIndex' = currentIndex
            /\ highlighted' = highlighted]_vars

\* Enter followed the second link, the one selected
C14_Witness ==
    /\ navLast.ev = "Enter"
    /\ currentIndex = 1
    /\ navLast.href = LinkHref(1)

\* C15: after a mouse move CurrentIndex is -1, no link is highlighted and
\* keyboard-navigation mode is off.
C15_MouseMoveCancels ==
    navLast.ev = "MouseMove" =>
        /\ currentIndex = -1
        /\ highlighted = {}
        /\ ~keyboardNavActive

\* the mouse moved while a link was highlighted
C15_Witness ==
    /\ navLast.ev = "MouseMove" /\ navLast.was >= 0
    /\ currentIndex = -1

\* C19: at most one settle timeout is pending.
C19_OneTimerPending == Cardinality(timers) <= 1

\* a digit arrived while the timeout of the digit before was pending
C19_Witness ==
    /\ navLast.ev = "Digit" /\ navLast.heard
    /\ navLast.buffered # <<>>
    /\ Cardinality(timers) = 1

-----------------------------------------------------------------------------
(* Loading *)

\* C17: for the one corpus the page loads, lunr(...) completes at most once.
C17_BuiltOnce == builds <= 1

\* C18, as claimed: once the readiness wait has timed out without the
\* library, the index is never built.
C18_FallbackOnlyForever == checkInterval = "timedout" => ~lunrIndex.built

\* C18, amended: the callback of the readiness wait runs once, when the
\* interval is cleared, and on the timeout it builds nothing; after the
\* timeout the index is built only by the corpus fetch resolving once the
\* library has loaded, and never once the fetch has settled.
C18_TimeoutLeavesFetchToBuild ==
    [][/\ callbacks' = (IF checkInterval' = "active" THEN 0 ELSE 1)
       /\ (checkInterval = "active" /\ checkInterval' = "timedout") =>
            /\ ~lunrIndex'.built
            /\ builds' = builds
       /\ (checkInterval = "timedout" /\ lunrIndex' # lunrIndex) =>
            /\ last'.ev = "FetchResolves"
            /\ lunrDefined
            /\ documents' # <<>>
       /\ (checkInterval = "timedout" /\ fetchState # "pending") =>
            lunrIndex' = lunrIndex]_vars

\* the wait timed out, the library loaded after it and the fetch resolved
\* last: the index is built
C18_Witness ==
    /\ checkInterval = "timedout"
    /\ last.ev = "FetchResolves"
    /\ lunrIndex.built

\* no build has thrown
NoBuildThrew == last.path # "build threw"

\* C20: in a run in which no build throws, from any moment at which the
\* fetch has resolved with a non-empty corpus and the library is defined
\* without the readiness wait having timed out, the index is eventually
\* built, whichever of the two came first.
C20_IndexEventuallyBuilt ==
    ([]NoBuildThrew) =>
        [](( /\ fetchState = "resolved" /\ documents # <<>>
             /\ lunrDefined /\ checkInterval # "timedout") => <>lunrIndex.built)

\* the fetch resolved before the library loaded, and the callback of the
\* readiness wait built the index
C20_Witness ==
    /\ last.ev = "PollTick" /\ last.path = "built"
    /\ builds = 1
    /\ fetchState = "resolved"

-----------------------------------------------------------------------------
(* The snippet *)

\* the terms of a query: its longest runs of characters other than whitespace
TermsOf(q) ==
    {SubSeq(q, i, j) : <<i, j>> \in
        {r \in (1..Len(q)) \X (1..Len(q)) :
            /\ r[1] <= r[2]
            /\ \A k \in r[1]..r[2] : q[k] \notin Whitespace
            /\ r[1] = 1 \/ q[r[1] - 1] \in Whitespace
            /\ r[2] = Len(q) \/ q[r[2] + 1] \in Whitespace}}

\* the offsets of text at which a term occurs, letter case aside
OccurrencesOf(term, text) ==
    {off \in 0..(Len(text) - Len(term)) :
        \A k \in 1..Len(term) : SameLetter(text[off + k], term[k])}

\* the offsets at which any term of the call's query occurs in its content
TermOffsets == UNION {OccurrencesOf(t, snippet.content) : t \in TermsOf(snippet.query)}

\* C16: when a term of the query occurs in the content, the window of
\* getSnippet is the one around the least offset at which any term occurs:
\* it starts contextSize characters before it and ends contextSize after it,
\* within the content.
C16_WindowOnEarliestTerm ==
    (snippet.returned /\ TermOffsets # {}) =>
        LET earliest == CHOOSE m \in TermOffsets : \A n \in TermOffsets : m <= n IN
        /\ snippet.start = Max(0, earliest - contextSize)
        /\ snippet.end = Min(Len(snippet.content), earliest + contextSize)

-----------------------------------------------------------------------------
(* After the mouse *)

NavKeys == {"ArrowDown", "ArrowUp", "Digit"}

\* C21: when the last event was a mouse move that cancelled
\* keyboard-navigation mode, an event that is not an arrow or digit key
\* leaves the mode off, CurrentIndex at -1 and no link highlighted.
C21_CancelledUntilKey ==
    [][(/\ navLast.ev = "MouseMove" /\ navLast.was >= 0
        /\ navLast'.ev \notin NavKeys) =>
            /\ ~keyboardNavActive'
            /\ currentIndex' = -1
            /\ highlighted' = {}]_vars

====
